---- MODULE Spec2Model ----
(***************************************************************************)
(* fossbox: `run` (src/fossbox/cli.py) executes a command in a disposable  *)
(* workspace, copies the files selected by --save to --out and removes    *)
(* the workspace.  The model is the host file system shared by all runs    *)
(* plus, per invocation of `run`, its options, its locals and its          *)
(* position in the function body.                                          *)
(*                                                                         *)
(* Strings are TLA+ strings; paths are POSIX path strings.  Floats given   *)
(* on the command line (--cpus) are held in hundredths of a core.          *)
(***************************************************************************)
EXTENDS Integers, Sequences, FiniteSets, TLC

VARIABLES
    fs,        \* host file system: absolute path -> node
    environ,   \* os.environ of the invoking shell
    pc,        \* per run: position in run()
    opts,      \* per run: ctx.args and the options of run()
    run_id,    \* per run: str(uuid.uuid4())[:8]
    base_dir,  \* per run: the directory mkdtemp returned
    plan,      \* per run: cpu_quota, use_systemd, full_cmd, launch_mode, use_cwd, use_env
    rc,        \* per run: result.returncode
    patterns,  \* per run: the list built from --save
    patIdx,    \* per run: index of `pat` in the outer loop
    matches,   \* per run: what is left of glob.glob(...) in the inner loop
    src,       \* per run: the match being copied
    dest,      \* per run: where it is copied to
    copied,    \* per run: the counter
    pending,   \* per run: the exception in flight while the finally block runs
    outcome,   \* per run: how run() ended
    echo       \* per run: what typer.echo wrote, in order

vars == <<fs, environ, pc, opts, run_id, base_dir, plan, rc, patterns, patIdx, matches,
          src, dest, copied, pending, outcome, echo>>

-----------------------------------------------------------------------------
(* Bounds of the model *)

\* child exit codes are 0..MaxRc
MaxRc == 1
\* str(uuid.uuid4())[:8] is one of NumRunIds tokens
NumRunIds == 2
\* tempfile.mkdtemp draws its random part from NumSuffixes names
NumSuffixes == 2
\* --timeout is -1..MaxTimeout
MaxTimeout == 1

Runs == {1, 2}
NONE == "<none>"

-----------------------------------------------------------------------------
(* str methods *)

Char(s, i) == SubSeq(s, i, i)

StartsWith(s, p) == Len(s) >= Len(p) /\ SubSeq(s, 1, Len(p)) = p

\* s.find(c): the first index of character c in s, 0 when absent
Find(s, c) ==
    IF \E i \in 1..Len(s) : Char(s, i) = c
    THEN CHOOSE i \in 1..Len(s) :
             Char(s, i) = c /\ \A j \in 1..(i - 1) : Char(s, j) # c
    ELSE 0

\* s.rfind(c): the last index of character c in s, 0 when absent
RFind(s, c) ==
    IF \E i \in 1..Len(s) : Char(s, i) = c
    THEN CHOOSE i \in 1..Len(s) :
             Char(s, i) = c /\ \A j \in (i + 1)..Len(s) : Char(s, j) # c
    ELSE 0

\* s.split(c): the pieces of s between occurrences of c, empty pieces kept
RECURSIVE Split(_, _)
Split(s, c) ==
    LET i == Find(s, c) IN
    IF i = 0 THEN <<s>>
    ELSE <<SubSeq(s, 1, i - 1)>> \o Split(SubSeq(s, i + 1, Len(s)), c)

\* s.strip(): s without leading and trailing blanks
RECURSIVE Strip(_)
Strip(s) ==
    IF Len(s) = 0 THEN s
    ELSE IF Char(s, 1) = " " THEN Strip(SubSeq(s, 2, Len(s)))
    ELSE IF Char(s, Len(s)) = " " THEN Strip(SubSeq(s, 1, Len(s) - 1))
    ELSE s

\* fnmatch.fnmatchcase(name, pat) for patterns made of literals, "*" and "?"
RECURSIVE FnMatch(_, _)
FnMatch(name, pat) ==
    IF Len(pat) = 0 THEN Len(name) = 0
    ELSE IF Char(pat, 1) = "*"
         THEN \E k \in 0..Len(name) :
                  FnMatch(SubSeq(name, k + 1, Len(name)), SubSeq(pat, 2, Len(pat)))
    ELSE /\ Len(name) > 0
         /\ Char(pat, 1) \in {"?", Char(name, 1)}
         /\ FnMatch(SubSeq(name, 2, Len(name)), SubSeq(pat, 2, Len(pat)))

-----------------------------------------------------------------------------
(* pathlib *)

Join(d, n) == IF d = "/" THEN "/" \o n ELSE d \o "/" \o n

\* Path.parent
Parent(p) ==
    LET i == RFind(p, "/") IN IF i <= 1 THEN "/" ELSE SubSeq(p, 1, i - 1)

\* Path.name
Name(p) == SubSeq(p, RFind(p, "/") + 1, Len(p))

\* Path.suffix: from the last dot of the name, unless the dot is first or last
PathSuffix(p) ==
    LET n == Name(p)
        i == RFind(n, ".")
    IN  IF 1 < i /\ i < Len(n) THEN SubSeq(n, i, Len(n)) ELSE ""

\* Path.stem: the name without its suffix
PathStem(p) ==
    LET n == Name(p)
        i == RFind(n, ".")
    IN  IF 1 < i /\ i < Len(n) THEN SubSeq(n, 1, i - 1) ELSE n

\* p lies strictly below directory d
IsUnder(p, d) == p # d /\ StartsWith(p, Join(d, ""))

RECURSIVE JoinAll(_)
JoinAll(parts) ==
    IF Len(parts) = 0 THEN ""
    ELSE "/" \o Head(parts) \o JoinAll(Tail(parts))

\* the components of a path string; pathlib drops empty and "." components
Parts(p) == SelectSeq(Split(p, "/"), LAMBDA c : c \notin {"", "."})

\* Path.__truediv__ followed by str(): an absolute right operand replaces the left
PathJoin(d, pat) ==
    LET parts == Parts(IF StartsWith(pat, "/") THEN pat ELSE d \o "/" \o pat)
    IN  IF Len(parts) = 0 THEN "/" ELSE JoinAll(parts)

-----------------------------------------------------------------------------
(* The host file system.  A node is a directory, a regular file holding   *)
(* `data`, a symbolic link to the path `data`, or a fifo; `mode` is its    *)
(* permission string.  Symbolic links point at regular files or at         *)
(* nothing; none points at a directory or at another link.                 *)

DirNode == [kind |-> "dir", data |-> NONE, mode |-> "rwx"]
FileNode(content) == [kind |-> "file", data |-> content, mode |-> "rw"]
LinkNode(target) == [kind |-> "symlink", data |-> target, mode |-> "rwx"]
FifoNode == [kind |-> "fifo", data |-> NONE, mode |-> "rw"]

Readable(n) == Find(n.mode, "r") # 0
Writable(n) == Find(n.mode, "w") # 0

\* the path a system call on p acts on (symbolic links followed)
Deref(f, p) ==
    IF p \in DOMAIN f /\ f[p].kind = "symlink" THEN f[p].data ELSE p

\* Path.exists()
Exists(f, p) == p \in DOMAIN f /\ Deref(f, p) \in DOMAIN f

\* Path.is_file()
IsFile(f, p) == Exists(f, p) /\ f[Deref(f, p)].kind = "file"

\* Path.is_dir()
IsDir(f, p) == Exists(f, p) /\ f[Deref(f, p)].kind = "dir"

RECURSIVE Ancestors(_)
Ancestors(p) == IF p = "/" THEN {} ELSE {Parent(p)} \cup Ancestors(Parent(p))

\* Path.mkdir(parents=True, exist_ok=True) raises: the path or one of its
\* ancestors exists and is not a directory
MkdirRaises(f, p) ==
    \E q \in ({p} \cup Ancestors(p)) : q \in DOMAIN f /\ ~IsDir(f, q)

\* Path.mkdir(parents=True, exist_ok=True) when it does not raise
Mkdir(f, p) ==
    [q \in DOMAIN f \cup {p} \cup Ancestors(p) |->
        IF q \in DOMAIN f THEN f[q] ELSE DirNode]

\* shutil.rmtree(d) raises: d is no directory, or a directory in the tree
\* that is not writable still holds entries
RmTreeRaises(f, d) ==
    \/ d \notin DOMAIN f
    \/ f[d].kind # "dir"
    \/ \E q \in DOMAIN f :
          /\ q = d \/ IsUnder(q, d)
          /\ f[q].kind = "dir"
          /\ ~Writable(f[q])
          /\ \E x \in DOMAIN f : Parent(x) = q /\ x # q

\* shutil.rmtree(d) when it succeeds
RmTree(f, d) ==
    [q \in {x \in DOMAIN f : x # d /\ ~IsUnder(x, d)} |-> f[q]]

\* the entries of the tree at d that rmtree cannot remove: those in a
\* directory that is not writable, and the directories above them
Undeletable(f, d) ==
    {q \in DOMAIN f :
        /\ q = d \/ IsUnder(q, d)
        /\ \E x \in DOMAIN f :
              /\ x = q \/ IsUnder(x, q)
              /\ x # d /\ IsUnder(x, d)
              /\ ~Writable(f[Parent(x)])}

\* shutil.rmtree(d) when it raises part way: it has removed nothing yet, or
\* everything it can remove (os.scandir fixes no order)
RmTreePartial(f, d) ==
    IF d \notin DOMAIN f \/ f[d].kind # "dir" THEN {f}
    ELSE {f, [q \in {x \in DOMAIN f :
                        (x # d /\ ~IsUnder(x, d)) \/ x \in Undeletable(f, d)} |-> f[q]]}

\* the file shutil.copy2(s, d) writes: into d when d is a directory,
\* through d when d is a symbolic link
CopyTarget(f, s, d) == IF IsDir(f, d) THEN Join(d, Name(s)) ELSE Deref(f, d)

\* shutil.copy2(s, d) raises: the source cannot be read, the target cannot be
\* written or created, or both are the same file
Copy2Raises(f, s, d) ==
    LET t == CopyTarget(f, s, d) IN
    \/ ~IsFile(f, s)
    \/ ~Readable(f[Deref(f, s)])
    \/ Deref(f, s) = t
    \/ ~IsDir(f, Parent(t))
    \/ ~Writable(f[Parent(t)])
    \/ t \in DOMAIN f /\ (f[t].kind = "dir" \/ ~Writable(f[t]))

\* shutil.copy2(s, d) when it succeeds: content and permission bits of s at
\* the target
Copy2(f, s, d) ==
    LET t == CopyTarget(f, s, d) IN
    [q \in DOMAIN f \cup {t} |->
        IF q = t THEN [kind |-> "file", data |-> f[Deref(f, s)].data,
                       mode |-> f[Deref(f, s)].mode]
        ELSE f[q]]

-----------------------------------------------------------------------------
(* glob.glob(pathname, recursive=True) *)

\* glob._ishidden
Hidden(name) == StartsWith(name, ".")

\* glob.has_magic
HasMagic(s) == \E i \in 1..Len(s) : Char(s, i) \in {"*", "?", "["}

\* some component of p below d is hidden (glob._rlistdir skips those)
HiddenBelow(p, d) ==
    LET rel == Split(SubSeq(p, Len(Join(d, "")) + 1, Len(p)), "/")
    IN  \E i \in 1..Len(rel) : Hidden(rel[i])

\* the paths one component of the pattern leads to from the directories in cur
GlobStep(f, cur, comp, last) ==
    LET dirs == {d \in cur : IsDir(f, d)} IN
    IF comp = ".." THEN {Parent(d) : d \in dirs}
    ELSE IF comp = "**"
    THEN dirs \cup {p \in DOMAIN f :
                      \E d \in dirs : /\ IsUnder(p, d)
                                      /\ ~HiddenBelow(p, d)
                                      /\ (last \/ IsDir(f, p))}
    ELSE IF HasMagic(comp)
    THEN {p \in DOMAIN f :
            /\ p # "/"
            /\ Parent(p) \in dirs
            /\ Hidden(comp) \/ ~Hidden(Name(p))
            /\ FnMatch(Name(p), comp)}
    ELSE {Join(d, comp) : d \in dirs} \cap DOMAIN f

RECURSIVE GlobFrom(_, _, _)
GlobFrom(f, cur, comps) ==
    IF Len(comps) = 0 THEN cur
    ELSE GlobFrom(f, GlobStep(f, cur, Head(comps), Len(comps) = 1), Tail(comps))

\* glob.glob of an absolute pathname: the paths of the entries it returns
Glob(f, pathname) == GlobFrom(f, {"/"}, Parts(pathname))

-----------------------------------------------------------------------------
(* float arithmetic of _cpu_quota_from_cpus.  cpus is the double nearest   *)
(* to h/100; cpus * 100 is the double nearest to the exact product, and    *)
(* int() truncates it.  With d = m * 2^-e the double of h/100 (m of 53     *)
(* bits), the exact product is h + err * 2^-e where err = 100*m - h*2^e,   *)
(* |err| < 50: the product rounds below h exactly when err is under minus  *)
(* half the gap between h and the double before it.                        *)

RECURSIVE Pow2(_)
Pow2(n) == IF n = 0 THEN 1 ELSE 2 * Pow2(n - 1)

\* 2^n mod 100
RECURSIVE Pow2Mod100(_)
Pow2Mod100(n) == IF n = 0 THEN 1 ELSE (2 * Pow2Mod100(n - 1)) % 100

\* floor(log2(h)) for h >= 1
RECURSIVE FloorLog2(_)
FloorLog2(h) == IF h < 2 THEN 0 ELSE 1 + FloorLog2(h \div 2)

\* floor(log2(h/100)) for h >= 1
RECURSIVE FloorLog2Cent(_)
FloorLog2Cent(h) ==
    IF h >= 100 THEN FloorLog2(h \div 100) ELSE FloorLog2Cent(2 * h) - 1

\* int(cpus * 100) for cpus = h/100, h >= 0
IntTimes100(h) ==
    IF h = 0 THEN 0
    ELSE LET k == FloorLog2Cent(h)
             L == FloorLog2(h)
             rho == ((h % 100) * Pow2Mod100(52 - k)) % 100
             err == IF rho < 50 THEN 0 - rho ELSE 100 - rho
             gap == IF Pow2(L) = h THEN Pow2(L - k - 2) ELSE Pow2(L - k - 1)
         IN  IF err < 0 - gap THEN h - 1 ELSE h

\* str(cpus) for cpus = h/100
FloatStr(h) ==
    LET frac == h % 100 IN
    ToString(h \div 100) \o "." \o
        (IF frac % 10 = 0 THEN ToString(frac \div 10)
         ELSE IF frac < 10 THEN "0" \o ToString(frac)
         ELSE ToString(frac))

_cpu_quota_from_cpus(cpus) == ToString(IntTimes100(cpus)) \o "%"

-----------------------------------------------------------------------------
(* The host *)

\* os.environ
Environ == environ

\* the environments a shell can hand to the program: the usual one, one that
\* names a scratch directory, one whose home directory lies below /tmp
DefaultEnviron == ("HOME" :> "/home/u") @@ ("PATH" :> "/usr/bin")
Environs ==
    { DefaultEnviron,
      ("TMPDIR" :> "/scratch") @@ DefaultEnviron,
      ("HOME" :> "/tmp/u") @@ ("PATH" :> "/usr/bin") }

\* tempfile.gettempdir(): $TMPDIR when set, else /tmp
TempRoot == IF "TMPDIR" \in DOMAIN Environ THEN Environ["TMPDIR"] ELSE "/tmp"

\* Path.home() / ".cache" / "fossbox" / "runs"
CacheRoot == Environ["HOME"] \o "/.cache/fossbox/runs"

SystemdRun == "/usr/bin/systemd-run"

\* shutil.which("systemd-run") is not None
_has_systemd_run(f) == IsFile(f, SystemdRun)

\* str(uuid.uuid4())[:8]: eight hexadecimal characters
RunIds == {"0000000" \o ToString(i) : i \in 1..NumRunIds}

\* the random part of a mkdtemp name
Suffixes == {"aaaaaaa" \o ToString(i) : i \in 1..NumSuffixes}

\* mutant: the name is not checked against the directories that exist
MkdtempAnyName(f, prefix, dir) == {Join(dir, prefix \o x) : x \in Suffixes}

\* tempfile.mkdtemp(prefix=, dir=): the names it can return, none of which exists
Mkdtemp(f, prefix, dir) ==
    {p \in {Join(dir, prefix \o x) : x \in Suffixes} : p \notin DOMAIN f}

\* a host without the destination: the roots, the home directory, a file
\* outside every workspace and a regular file at /f
BareHost ==
    ("/" :> DirNode) @@ ("/tmp" :> DirNode) @@ ("/home" :> DirNode) @@
    ("/home/u" :> DirNode) @@ ("/usr" :> DirNode) @@ ("/usr/bin" :> DirNode) @@
    ("/etc" :> DirNode) @@ ("/etc/s.x" :> FileNode("host:s.x")) @@
    ("/f" :> FileNode("host:f")) @@ ("/out" :> DirNode) @@
    ("/scratch" :> DirNode) @@ ("/tmp/u" :> DirNode)

\* what the destination /out holds before the run
DestBefore ==
    { <<>>,
      ("/out/report.txt" :> FileNode("old:report.txt")),
      ("/out/report.txt" :> FileNode("old:report.txt")) @@
      ("/out/report-00000001.txt" :> FileNode("old:report-1")) }

Host(systemd, before) ==
    (IF systemd THEN (SystemdRun :> FileNode("host:systemd-run")) ELSE <<>>)
    @@ before @@ BareHost

-----------------------------------------------------------------------------
(* The wrapped command.  The child is opaque to run(); what it leaves in   *)
(* its working directory is a function of the command vector.              *)

CmdTrue == <<"true">>
CmdScan == <<"sh", "-c", "touch a.x b.x c.g">>
CmdReports == <<"sh", "-c", "mkdir d1 d2; touch report.txt d1/report.txt d2/report.txt">>
CmdMixed == <<"sh", "-c", "touch a.x; ln -s /etc/s.x s.x; mkdir d.x; mkfifo p.x">>
CmdLocked == <<"sh", "-c", "touch a.x u.x; chmod 000 u.x">>
CmdReadOnlyDir == <<"sh", "-c", "mkdir ro; touch a.x ro/k.x; chmod 555 ro">>
CmdMissing == <<"no-such-command">>

\* bytes the child of run r wrote to the file at rel
Content(r, rel) == "run" \o ToString(r) \o ":" \o rel

\* the entries the child of run r creates below its working directory wd
ChildFiles(cmd, r, wd) ==
    LET file(rel) == (Join(wd, rel) :> FileNode(Content(r, rel)))
        dir(rel) == (Join(wd, rel) :> DirNode)
    IN  IF cmd = CmdScan THEN file("a.x") @@ file("b.x") @@ file("c.g")
        ELSE IF cmd = CmdReports
        THEN file("report.txt") @@ dir("d1") @@ file("d1/report.txt")
             @@ dir("d2") @@ file("d2/report.txt")
        ELSE IF cmd = CmdMixed
        THEN file("a.x") @@ (Join(wd, "s.x") :> LinkNode("/etc/s.x"))
             @@ dir("d.x") @@ (Join(wd, "p.x") :> FifoNode)
        ELSE IF cmd = CmdLocked
        THEN file("a.x") @@ (Join(wd, "u.x") :> [FileNode(Content(r, "u.x")) EXCEPT !.mode = "--"])
        ELSE IF cmd = CmdReadOnlyDir
        THEN file("a.x") @@ (Join(wd, "ro") :> [DirNode EXCEPT !.mode = "r-x"])
             @@ file("ro/k.x")
        ELSE <<>>

-----------------------------------------------------------------------------
(* run(): the pure steps *)

\* mutant: the entry check never finds the command missing
NoCommandNever(args) == FALSE

\* `not ctx.args`
NoCommand(args) == Len(args) = 0

\* the parent directory of the workspace
RunsRoot(tmpfs) == IF tmpfs # "" THEN CacheRoot ELSE TempRoot

\* work_dir = base_dir / "work"
WorkDir(base) == Join(base, "work")

\* mutant: the copy of the environment is handed on as it is
EnvNoOverride(work) == Environ

\* env = os.environ.copy(); env["TMPDIR"] = str(work_dir)
Env(work) == ("TMPDIR" :> work) @@ Environ

\* mutant: the timeout parameter is added for every timeout that is not negative
TimeoutParamsFromZero(timeout) ==
    IF timeout >= 0 THEN <<"-p", "RuntimeMaxSec=" \o ToString(timeout)>> ELSE <<>>

\* `if timeout > 0` (service) and `if timeout and timeout > 0` (scope)
TimeoutParams(timeout) ==
    IF timeout > 0 THEN <<"-p", "RuntimeMaxSec=" \o ToString(timeout)>> ELSE <<>>

\* sd_cmd of the transient service
ServiceCmd(o, id, work, cpu_quota) ==
    << "systemd-run", "--user", "--unit", "fossbox-" \o id, "--wait", "--collect",
       "-p", "MemoryMax=" \o o.ram,
       "-p", "CPUQuota=" \o cpu_quota,
       "-p", "PrivateTmp=yes",
       "-p", "TemporaryFileSystem=/tmp:rw,size=" \o o.tmpfs,
       "-p", "WorkingDirectory=" \o work,
       "-p", "Environment=TMPDIR=/tmp" >>
    \o TimeoutParams(o.timeout)

\* sd_cmd of the transient scope
ScopeCmd(o, cpu_quota) ==
    << "systemd-run", "--user", "--scope",
       "-p", "MemoryMax=" \o o.ram,
       "-p", "CPUQuota=" \o cpu_quota >>
    \o TimeoutParams(o.timeout)

NoPlan ==
    [cpu_quota |-> "", use_systemd |-> FALSE, full_cmd |-> <<>>,
     launch_mode |-> "", use_cwd |-> NONE, use_env |-> <<>>]

\* mutant: the service branch is taken on the tmpfs request alone
LaunchPlanTmpfsFirst(o, id, work, use_systemd) ==
    LET cpu_quota == _cpu_quota_from_cpus(o.cpus) IN
    IF o.tmpfs # ""
    THEN [cpu_quota |-> cpu_quota, use_systemd |-> use_systemd,
          full_cmd |-> ServiceCmd(o, id, work, cpu_quota) \o <<"--">> \o o.args,
          launch_mode |-> "systemd (service) with tmpfs /tmp=" \o o.tmpfs,
          use_cwd |-> NONE, use_env |-> <<>>]
    ELSE IF use_systemd
    THEN [cpu_quota |-> cpu_quota, use_systemd |-> use_systemd,
          full_cmd |-> ScopeCmd(o, cpu_quota) \o <<"--">> \o o.args,
          launch_mode |-> "systemd (scope)",
          use_cwd |-> work, use_env |-> Env(work)]
    ELSE [cpu_quota |-> cpu_quota, use_systemd |-> use_systemd,
          full_cmd |-> o.args,
          launch_mode |-> "direct (no hard limits)",
          use_cwd |-> work, use_env |-> Env(work)]

\* steps 3 to 5 of run(): use_cwd NONE and use_env <<>> stand for None
LaunchPlan(o, id, work, use_systemd) ==
    LET cpu_quota == _cpu_quota_from_cpus(o.cpus) IN
    IF use_systemd /\ o.tmpfs # ""
    THEN [cpu_quota |-> cpu_quota, use_systemd |-> use_systemd,
          full_cmd |-> ServiceCmd(o, id, work, cpu_quota) \o <<"--">> \o o.args,
          launch_mode |-> "systemd (service) with tmpfs /tmp=" \o o.tmpfs,
          use_cwd |-> NONE, use_env |-> <<>>]
    ELSE IF use_systemd
    THEN [cpu_quota |-> cpu_quota, use_systemd |-> use_systemd,
          full_cmd |-> ScopeCmd(o, cpu_quota) \o <<"--">> \o o.args,
          launch_mode |-> "systemd (scope)",
          use_cwd |-> work, use_env |-> Env(work)]
    ELSE [cpu_quota |-> cpu_quota, use_systemd |-> use_systemd,
          full_cmd |-> o.args,
          launch_mode |-> "direct (no hard limits)",
          use_cwd |-> work, use_env |-> Env(work)]

\* the status lines echoed before the child is launched
StatusLines(o, work, p) ==
    << <<"out", "[fossbox] workspace: " \o work>>,
       <<"out", "[fossbox] limits: cpus=" \o FloatStr(o.cpus)
                \o " (CPUQuota=" \o p.cpu_quota \o "), ram=" \o o.ram
                \o ", timeout="
                \o (IF o.timeout # 0 THEN ToString(o.timeout) ELSE "none")>> >>
    \o (IF o.tmpfs # ""
        THEN << <<"out", "[fossbox] speed mode: tmpfs /tmp with size=" \o o.tmpfs>> >>
        ELSE <<>>)
    \o << <<"out", "[fossbox] launching via: " \o p.launch_mode \o " ..." >> >>

\* subprocess.run raises instead of returning: the program to execute (the
\* first word of full_cmd) does not exist
SpawnRaises(full_cmd) == Len(full_cmd) = 0 \/ full_cmd[1] = CmdMissing[1]

\* the caller's working directory
Cwd == Environ["HOME"]

\* the directory the child starts in: the cwd given to subprocess.run, else
\* the launcher's WorkingDirectory= parameter, else the caller's
ChildCwd(p) ==
    LET key == "WorkingDirectory="
        at == {i \in 1..Len(p.full_cmd) : StartsWith(p.full_cmd[i], key)}
    IN  IF p.use_cwd # NONE THEN p.use_cwd
        ELSE IF at # {}
        THEN LET i == CHOOSE i \in at : \A j \in at : i <= j
             IN  SubSeq(p.full_cmd[i], Len(key) + 1, Len(p.full_cmd[i]))
        ELSE Cwd

\* PrivateTmp=yes with TemporaryFileSystem=/tmp: inside the transient service
\* /tmp is an empty file system of its own, so a host path below /tmp is not
\* there
Masked(p, path) ==
    /\ p.use_systemd
    /\ \E i \in 1..Len(p.full_cmd) :
          /\ p.full_cmd[i] = "PrivateTmp=yes"
          /\ \A j \in 1..i : p.full_cmd[j] # "--"
    /\ path = "/tmp" \/ IsUnder(path, "/tmp")

\* the launcher can start the child: it can enter the child's working directory
ChildStarts(p) == ~Masked(p, ChildCwd(p))

\* the user command as the child sees it: what follows the launcher's "--"
ChildCmd(p, o) == IF p.use_systemd
                  THEN SubSeq(p.full_cmd, Len(p.full_cmd) - Len(o.args) + 1, Len(p.full_cmd))
                  ELSE p.full_cmd

\* the exit codes the child can end with: a launcher that cannot execute the
\* user command reports failure
ExitCodes(cmd) == IF cmd = CmdMissing THEN 1..MaxRc ELSE 0..MaxRc

\* patterns = [p.strip() for p in (save.split(",") if save else []) if p.strip()]
Patterns(save) ==
    LET parts == IF save # "" THEN Split(save, ",") ELSE <<>>
        stripped == [i \in 1..Len(parts) |-> Strip(parts[i])]
    IN  SelectSeq(stripped, LAMBDA q : q # "")

\* mutant: the copy always takes the source's name
DestForNoRename(f, out, s, id) == Join(out, Name(s))

\* dest = out / src.name; if dest.exists(): dest = out / f"{stem}-{run_id}{suffix}"
DestFor(f, out, s, id) ==
    IF Exists(f, Join(out, Name(s)))
    THEN Join(out, PathStem(s) \o "-" \o id \o PathSuffix(s))
    ELSE Join(out, Name(s))

\* how run() ends: typer.Exit(code), or an exception that leaves the process
\* with the interpreter's status for an uncaught exception
Exit(code) == [kind |-> "Exit", code |-> code]
Raised(what) == [kind |-> what, code |-> 1]
NoOutcome == [kind |-> "", code |-> 0]

-----------------------------------------------------------------------------
(* run(): the steps.  Run r is at pc[r]; "absent" is a run that is never   *)
(* started, "done" a run that has returned control to its caller.          *)

\* typer.echo: a line is <<stream, text>>.  The texts are the source's, but
\* for the backquotes of the usage error, the ellipsis of the launch line
\* (written "...") and the exception text after "cleanup warning: ".
Say(r, lines) == echo' = [echo EXCEPT ![r] = @ \o lines]

\* lines 95-102: the usage error, else user_cmd and run_id
CheckArgs(r) ==
    /\ pc[r] = "start"
    /\ IF NoCommand(opts[r].args)
       THEN /\ Say(r, << <<"err", "Error: no command provided. Put your command after --.">> >>)
            /\ outcome' = [outcome EXCEPT ![r] = Exit(2)]
            /\ pc' = [pc EXCEPT ![r] = "done"]
            /\ UNCHANGED run_id
       ELSE /\ \E id \in RunIds : run_id' = [run_id EXCEPT ![r] = id]
            /\ pc' = [pc EXCEPT ![r] = "mkbase"]
            /\ UNCHANGED <<outcome, echo>>
    /\ UNCHANGED <<fs, environ, opts, base_dir, plan, rc, patterns, patIdx, matches,
                   src, dest, copied, pending>>

\* lines 107-112: the runs root and mkdtemp
AcquireBase(r) ==
    /\ pc[r] = "mkbase"
    /\ LET root == RunsRoot(opts[r].tmpfs)
           made == IF opts[r].tmpfs # "" /\ ~MkdirRaises(fs, root)
                   THEN Mkdir(fs, root) ELSE fs
           names == Mkdtemp(made, "fossbox-" \o run_id[r] \o "-", root)
       IN  IF ~IsDir(made, root) \/ names = {}
           THEN /\ outcome' = [outcome EXCEPT ![r] = Raised("OSError")]
                /\ pc' = [pc EXCEPT ![r] = "done"]
                /\ UNCHANGED <<fs, base_dir>>
           ELSE /\ \E p \in names :
                      /\ fs' = (p :> DirNode) @@ made
                      /\ base_dir' = [base_dir EXCEPT ![r] = p]
                /\ pc' = [pc EXCEPT ![r] = "mkout"]
                /\ UNCHANGED outcome
    /\ UNCHANGED <<environ, opts, run_id, plan, rc, patterns, patIdx, matches,
                   src, dest, copied, pending, echo>>

\* line 115: out.mkdir(parents=True, exist_ok=True), outside the try block
MkdirOut(r) ==
    /\ pc[r] = "mkout"
    /\ IF MkdirRaises(fs, opts[r].out)
       THEN /\ outcome' = [outcome EXCEPT ![r] = Raised("FileExistsError")]
            /\ pc' = [pc EXCEPT ![r] = "done"]
            /\ UNCHANGED fs
       ELSE /\ fs' = Mkdir(fs, opts[r].out)
            /\ pc' = [pc EXCEPT ![r] = "mkwork"]
            /\ UNCHANGED outcome
    /\ UNCHANGED <<environ, opts, run_id, base_dir, plan, rc, patterns, patIdx, matches,
                   src, dest, copied, pending, echo>>

\* line 116: work_dir.mkdir(parents=True, exist_ok=True), outside the try block
MkdirWork(r) ==
    /\ pc[r] = "mkwork"
    /\ IF MkdirRaises(fs, WorkDir(base_dir[r]))
       THEN /\ outcome' = [outcome EXCEPT ![r] = Raised("FileExistsError")]
            /\ pc' = [pc EXCEPT ![r] = "done"]
            /\ UNCHANGED fs
       ELSE /\ fs' = Mkdir(fs, WorkDir(base_dir[r]))
            /\ pc' = [pc EXCEPT ![r] = "plan"]
            /\ UNCHANGED outcome
    /\ UNCHANGED <<environ, opts, run_id, base_dir, plan, rc, patterns, patIdx, matches,
                   src, dest, copied, pending, echo>>

\* lines 118-176: env, cpu_quota, use_systemd and the launch mode
Plan(r) ==
    /\ pc[r] = "plan"
    /\ plan' = [plan EXCEPT ![r] =
                   LaunchPlan(opts[r], run_id[r], WorkDir(base_dir[r]),
                              _has_systemd_run(fs))]
    /\ pc' = [pc EXCEPT ![r] = "spawn"]
    /\ UNCHANGED <<fs, environ, opts, run_id, base_dir, rc, patterns, patIdx, matches,
                   src, dest, copied, pending, outcome, echo>>

\* mutant: the files of a child that failed are not looked for
SpawnSaveOnSuccess(r) ==
    /\ pc[r] = "spawn"
    /\ ~SpawnRaises(plan[r].full_cmd)
    /\ \E code \in 0..MaxRc :
          /\ rc' = [rc EXCEPT ![r] = <<code>>]
          /\ patterns' = [patterns EXCEPT ![r] =
                             IF code = 0 THEN Patterns(opts[r].save) ELSE <<>>]
    /\ Say(r, StatusLines(opts[r], WorkDir(base_dir[r]), plan[r]))
    /\ fs' = ChildFiles(ChildCmd(plan[r], opts[r]), r, ChildCwd(plan[r])) @@ fs
    /\ patIdx' = [patIdx EXCEPT ![r] = 1]
    /\ copied' = [copied EXCEPT ![r] = 0]
    /\ pc' = [pc EXCEPT ![r] = "glob"]
    /\ UNCHANGED <<environ, opts, run_id, base_dir, plan, matches, src, dest,
                   pending, outcome>>

\* mutant: the child is started and not waited for
SpawnNoWait(r) ==
    /\ pc[r] = "spawn"
    /\ Say(r, StatusLines(opts[r], WorkDir(base_dir[r]), plan[r]))
    /\ patterns' = [patterns EXCEPT ![r] = Patterns(opts[r].save)]
    /\ patIdx' = [patIdx EXCEPT ![r] = 1]
    /\ copied' = [copied EXCEPT ![r] = 0]
    /\ pc' = [pc EXCEPT ![r] = "glob"]
    /\ UNCHANGED <<fs, environ, opts, run_id, base_dir, plan, rc, matches, src,
                   dest, pending, outcome>>

\* lines 178-197: the status lines, subprocess.run, the result line, patterns
Spawn(r) ==
    /\ pc[r] = "spawn"
    /\ IF SpawnRaises(plan[r].full_cmd)
       THEN /\ Say(r, StatusLines(opts[r], WorkDir(base_dir[r]), plan[r]))
            /\ pending' = [pending EXCEPT ![r] = Raised("FileNotFoundError")]
            /\ pc' = [pc EXCEPT ![r] = "cleanup"]
            /\ UNCHANGED <<fs, rc, patterns, patIdx, copied>>
       ELSE /\ \E code \in (IF ChildStarts(plan[r])
                            THEN ExitCodes(ChildCmd(plan[r], opts[r]))
                            ELSE 1..MaxRc) :
                /\ rc' = [rc EXCEPT ![r] = <<code>>]
                /\ Say(r, StatusLines(opts[r], WorkDir(base_dir[r]), plan[r])
                          \o (IF code = 0
                              THEN << <<"out", "[fossbox] command completed successfully.">> >>
                              ELSE << <<"err", "[fossbox] command exited with code "
                                               \o ToString(code)>> >>))
            /\ fs' = (IF ChildStarts(plan[r])
                      THEN ChildFiles(ChildCmd(plan[r], opts[r]), r, ChildCwd(plan[r]))
                      ELSE <<>>) @@ fs
            /\ patterns' = [patterns EXCEPT ![r] = Patterns(opts[r].save)]
            /\ patIdx' = [patIdx EXCEPT ![r] = 1]
            /\ copied' = [copied EXCEPT ![r] = 0]
            /\ pc' = [pc EXCEPT ![r] = "glob"]
            /\ UNCHANGED pending
    /\ UNCHANGED <<environ, opts, run_id, base_dir, plan, matches, src, dest, outcome>>

\* lines 198-199: the next pattern and its glob, or the end of the outer loop
NextPattern(r) ==
    /\ pc[r] = "glob"
    /\ IF patIdx[r] <= Len(patterns[r])
       THEN /\ matches' = [matches EXCEPT ![r] =
                   Glob(fs, PathJoin(WorkDir(base_dir[r]), patterns[r][patIdx[r]]))]
            /\ pc' = [pc EXCEPT ![r] = "match"]
       ELSE /\ pc' = [pc EXCEPT ![r] = "report"]
            /\ UNCHANGED matches
    /\ UNCHANGED <<fs, environ, opts, run_id, base_dir, plan, rc, patterns, patIdx,
                   src, dest, copied, pending, outcome, echo>>

\* lines 199-204: the next match in the order glob listed it, is_file and
\* the exists check that names dest; or the end of the inner loop
NextMatch(r) ==
    /\ pc[r] = "match"
    /\ IF matches[r] = {}
       THEN /\ patIdx' = [patIdx EXCEPT ![r] = @ + 1]
            /\ pc' = [pc EXCEPT ![r] = "glob"]
            /\ UNCHANGED <<matches, src, dest>>
       ELSE \E m \in matches[r] :
            /\ matches' = [matches EXCEPT ![r] = @ \ {m}]
            /\ IF IsFile(fs, m)
               THEN /\ src' = [src EXCEPT ![r] = m]
                    /\ dest' = [dest EXCEPT ![r] =
                                   DestFor(fs, opts[r].out, m, run_id[r])]
                    /\ pc' = [pc EXCEPT ![r] = "copy"]
               ELSE UNCHANGED <<src, dest, pc>>
            /\ UNCHANGED patIdx
    /\ UNCHANGED <<fs, environ, opts, run_id, base_dir, plan, rc, patterns,
                   copied, pending, outcome, echo>>

\* lines 205-206: shutil.copy2(src, dest); copied += 1
Copy(r) ==
    /\ pc[r] = "copy"
    /\ IF Copy2Raises(fs, src[r], dest[r])
       THEN /\ pending' = [pending EXCEPT ![r] = Raised("OSError")]
            /\ pc' = [pc EXCEPT ![r] = "cleanup"]
            /\ UNCHANGED <<fs, copied>>
       ELSE /\ fs' = Copy2(fs, src[r], dest[r])
            /\ copied' = [copied EXCEPT ![r] = @ + 1]
            /\ pc' = [pc EXCEPT ![r] = "match"]
            /\ UNCHANGED pending
    /\ UNCHANGED <<environ, opts, run_id, base_dir, plan, rc, patterns, patIdx, matches,
                   src, dest, outcome, echo>>

\* lines 208-214: the summary line and raise typer.Exit(code=rc)
Report(r) ==
    /\ pc[r] = "report"
    /\ Say(r, IF Len(patterns[r]) > 0
              THEN << <<"out", "[fossbox] saved " \o ToString(copied[r])
                               \o " file(s) to: " \o opts[r].out>> >>
              ELSE << <<"out", "[fossbox] no --save patterns provided; nothing copied out.">> >>)
    /\ pending' = [pending EXCEPT ![r] = Exit(rc[r][1])]
    /\ pc' = [pc EXCEPT ![r] = "cleanup"]
    /\ UNCHANGED <<fs, environ, opts, run_id, base_dir, plan, rc, patterns, patIdx, matches,
                   src, dest, copied, outcome>>

\* lines 216-222: the finally block, after which the exception in flight
\* leaves run()
Cleanup(r) ==
    /\ pc[r] = "cleanup"
    /\ IF RmTreeRaises(fs, base_dir[r])
       THEN /\ \E left \in RmTreePartial(fs, base_dir[r]) : fs' = left
            /\ Say(r, << <<"err", "[fossbox] cleanup warning: ">> >>)
       ELSE /\ fs' = RmTree(fs, base_dir[r])
            /\ Say(r, << <<"out", "[fossbox] cleaned up workspace.">> >>)
    /\ outcome' = [outcome EXCEPT ![r] = pending[r]]
    /\ pc' = [pc EXCEPT ![r] = "done"]
    /\ UNCHANGED <<environ, opts, run_id, base_dir, plan, rc, patterns, patIdx, matches,
                   src, dest, copied, pending>>

Step(r) ==
    \/ CheckArgs(r)
    \/ AcquireBase(r)
    \/ MkdirOut(r)
    \/ MkdirWork(r)
    \/ Plan(r)
    \/ Spawn(r)
    \/ NextPattern(r)
    \/ NextMatch(r)
    \/ Copy(r)
    \/ Report(r)
    \/ Cleanup(r)

Next == \E r \in Runs : Step(r)

-----------------------------------------------------------------------------
(* Inputs *)

\* the defaults of the options of run()
DefaultOpts ==
    [args |-> CmdTrue, cpus |-> 100, ram |-> "1G", timeout |-> 0,
     tmpfs |-> "", save |-> "", out |-> "/out"]

Commands == {CmdTrue, CmdScan, CmdReports, CmdMixed, CmdLocked, CmdReadOnlyDir, CmdMissing}

Saves == {"", "*.x, *.g", "report.txt", "**/report.txt",
          "report.txt,*.txt , **/*.txt", "/etc/*.x", "../../../etc/s.x"}

\* runs that differ in what the child leaves, what is saved and what the
\* destination already holds
HarvestInputs ==
    {[o |-> [DefaultOpts EXCEPT !.args = c, !.save = s], host |-> Host(FALSE, b),
      env |-> DefaultEnviron] :
        c \in Commands, s \in Saves, b \in DestBefore}

\* runs that differ in how the workspace and the launch are set up
SetupInputs ==
    {[o |-> [DefaultOpts EXCEPT !.args = a, !.out = d, !.tmpfs = t, !.save = "*.x"],
      host |-> Host(sd, <<>>), env |-> e] :
        a \in {<<>>, CmdScan, CmdMissing}, d \in {"/out", "/f", "/new/out"},
        t \in {"", "256M"}, sd \in BOOLEAN, e \in Environs}

\* the state of run r before it starts
Fresh(started) ==
    /\ pc = [r \in Runs |-> IF r \in started THEN "start" ELSE "absent"]
    /\ run_id = [r \in Runs |-> NONE]
    /\ base_dir = [r \in Runs |-> NONE]
    /\ plan = [r \in Runs |-> NoPlan]
    /\ rc = [r \in Runs |-> <<>>]
    /\ patterns = [r \in Runs |-> <<>>]
    /\ patIdx = [r \in Runs |-> 1]
    /\ matches = [r \in Runs |-> {}]
    /\ src = [r \in Runs |-> NONE]
    /\ dest = [r \in Runs |-> NONE]
    /\ copied = [r \in Runs |-> 0]
    /\ pending = [r \in Runs |-> NoOutcome]
    /\ outcome = [r \in Runs |-> NoOutcome]
    /\ echo = [r \in Runs |-> <<>>]

\* one invocation of run
Init ==
    /\ \E in \in HarvestInputs \cup SetupInputs :
          /\ opts = [r \in Runs |-> in.o]
          /\ fs = in.host
          /\ environ = in.env
    /\ Fresh({1})

Spec == Init /\ [][Next]_vars

\* the planner's inputs: every option that reaches the command vector
PlanInputs ==
    {[o |-> [args |-> a, cpus |-> c, ram |-> m, timeout |-> t, tmpfs |-> d,
             save |-> "", out |-> "/out"],
      host |-> Host(sd, <<>>), env |-> e] :
        a \in {CmdTrue, <<"nmap", "--", "-p", "MemoryMax=9G">>},
        c \in {0, 29, 50, 100, 200}, m \in {"1G", "512M"},
        t \in (0 - 1)..MaxTimeout, d \in {"", "256M"}, sd \in BOOLEAN,
        e \in Environs}

InitPlan ==
    /\ \E in \in PlanInputs :
          /\ opts = [r \in Runs |-> in.o]
          /\ fs = in.host
          /\ environ = in.env
    /\ Fresh({1})

\* run() up to the choice of the launch plan
NextPlan ==
    \E r \in Runs :
        \/ CheckArgs(r)
        \/ AcquireBase(r)
        \/ MkdirOut(r)
        \/ MkdirWork(r)
        \/ Plan(r)

SpecPlan == InitPlan /\ [][NextPlan]_vars

\* two invocations started with the same options on one host, saving into
\* one destination
ConcInputs ==
    {[o |-> [DefaultOpts EXCEPT !.args = CmdReports, !.save = "report.txt", !.tmpfs = t],
      host |-> Host(TRUE, <<>>), env |-> DefaultEnviron] : t \in {"", "256M"}}

InitConc ==
    /\ \E in \in ConcInputs :
          /\ opts = [r \in Runs |-> in.o]
          /\ fs = in.host
          /\ environ = in.env
    /\ Fresh(Runs)

SpecConc == InitConc /\ [][Next]_vars

-----------------------------------------------------------------------------
(* Properties *)

\* run r was invoked with an empty command vector
EmptyVector(r) == opts[r].args = <<>>

\* run r has returned control to its caller
Done(r) == pc[r] = "done"

\* run r created a workspace base directory
Acquired(r) == base_dir[r] # NONE

\* the child of run r was spawned and has terminated
ChildEnded(r) == Len(rc[r]) = 1

\* run r wrote `line` to `stream`
Said(r, stream, line) ==
    \E i \in 1..Len(echo[r]) : echo[r][i] = <<stream, line>>

CleanupWarned(r) ==
    \E i \in 1..Len(echo[r]) :
        /\ echo[r][i][1] = "err"
        /\ StartsWith(echo[r][i][2], "[fossbox] cleanup warning")

\* C1: whenever a run that created a workspace base directory has returned,
\* on whatever path, the base directory is gone, unless the deletion failed
\* and a cleanup warning was written.  (Fails: the destination and the work
\* directory are created before the try block.)
C1_CleanupOnEveryExit ==
    \A r \in Runs :
        Done(r) /\ Acquired(r) =>
            base_dir[r] \notin DOMAIN fs \/ CleanupWarned(r)

\* C2: whenever the child ended with code rc, the run ends with typer.Exit(rc),
\* whatever the harvest and the cleanup did.  (Fails: a copy that raises
\* replaces the exit.)
C2_ExitCodeIsChildCode ==
    \A r \in Runs :
        Done(r) /\ ChildEnded(r) => outcome[r] = Exit(rc[r][1])

\* C3: with an empty command vector the run exits with code 2 and does
\* nothing else: it never leaves the entry check for a later step, it has no
\* run identity, workspace, plan, child or harvest, it writes only the usage
\* error, and the file system never changes.
C3_UsageError ==
    /\ [](\A r \in Runs :
            pc[r] # "absent" /\ EmptyVector(r) =>
                /\ pc[r] \in {"start", "done"}
                /\ Done(r) => outcome[r] = Exit(2)
                /\ ~Acquired(r) /\ run_id[r] = NONE /\ plan[r] = NoPlan
                /\ ~ChildEnded(r) /\ copied[r] = 0
                /\ \A i \in 1..Len(echo[r]) : echo[r][i][1] = "err"
                /\ Len(echo[r]) <= 1)
    /\ [][(\A r \in Runs : pc[r] # "absent" => EmptyVector(r))
            => fs' = fs]_vars

\* C3 witness: a run with no command has exited with code 2
C3_Witness ==
    Done(1) /\ EmptyVector(1) /\ outcome[1] = Exit(2)
            /\ Said(1, "err", "Error: no command provided. Put your command after --.")

\* a step of the harvest of run r that copies a file with success
Copies(r) == pc[r] = "copy" /\ pc'[r] = "match"

\* the destination names of the collision rule for the file run r is copying
PlainName(r) == Join(opts[r].out, Name(src[r]))
TaggedName(r) ==
    Join(opts[r].out, PathStem(src[r]) \o "-" \o run_id[r] \o PathSuffix(src[r]))

\* C4: a copy of a workspace file named N = stem+ext into a destination that
\* holds N and no stem-<runid>ext writes stem-<runid>ext and leaves N as it
\* was, so both are there, two files; into a destination without N it writes N.
\* Nothing else in the file system changes.
C4_CollisionRule ==
    [][\A r \in Runs : Copies(r) =>
          LET N == PlainName(r)
              R == TaggedName(r)
              bytes == fs[Deref(fs, src[r])].data
          IN  /\ Name(src[r]) = PathStem(src[r]) \o PathSuffix(src[r])
              /\ Len(run_id[r]) = 8
              /\ (Exists(fs, N) /\ R \notin DOMAIN fs =>
                    /\ R # N
                    /\ DOMAIN fs' = DOMAIN fs \cup {R}
                    /\ fs'[R].kind = "file" /\ fs'[R].data = bytes
                    /\ \A q \in DOMAIN fs : fs'[q] = fs[q])
              /\ (N \notin DOMAIN fs =>
                    /\ DOMAIN fs' = DOMAIN fs \cup {N}
                    /\ fs'[N].kind = "file" /\ fs'[N].data = bytes
                    /\ \A q \in DOMAIN fs : fs'[q] = fs[q])]_vars

\* C4 witness: report.txt was saved beside an older report.txt under the
\* run's identity
C4_Witness ==
    /\ pc[1] = "match" /\ copied[1] = 1 /\ run_id[1] = "00000002"
    /\ src[1] = Join(WorkDir(base_dir[1]), "report.txt")
    /\ "/out/report-00000002.txt" \in DOMAIN fs
    /\ fs["/out/report-00000002.txt"].data = Content(1, "report.txt")
    /\ fs["/out/report.txt"].data = "old:report.txt"

\* the file at p holds bytes the child of run r wrote
WrittenFor(r, p) == StartsWith(fs[p].data, Content(r, ""))

\* the files in the destination directory d
DestFiles(f, d) == {p \in DOMAIN f : p # d /\ Parent(p) = d}

\* C5: with two runs of distinct identities saving into one destination, no copy by one run changes
\* a destination file that holds what the other run saved there, whatever
\* the interleaving of their exists checks and copies.  (Fails: both runs
\* check before either copies, and both write the plain name.)
C5_NoCrossRunOverwrite ==
    [][\A r \in Runs, s \in Runs :
          Copies(r) /\ s # r /\ run_id[s] # run_id[r] =>
              \A p \in DestFiles(fs, opts[s].out) :
                  fs[p].kind = "file" /\ WrittenFor(s, p) => fs'[p] = fs[p]]_vars

\* C7: the count the harvest reports is the number of files it added to the
\* destination: every step of a run raises `copied` by exactly the number of
\* files that step added.  (Fails: a copy onto a name that is already there
\* is counted and adds no file.)
C7_CountIsFilesAdded ==
    [][\A r \in Runs :
          pc[r] \in {"glob", "match", "copy", "report"} =>
              copied'[r] - copied[r] =
                  Cardinality(DestFiles(fs', opts[r].out))
                      - Cardinality(DestFiles(fs, opts[r].out))]_vars

\* C8: a copy that fails is not counted and does not end the harvest: after
\* every copy attempt the run is still in the harvest loop with no exception
\* in flight.  (Fails: the exception of shutil.copy2 is not handled.)
C8_CopyFailureNotFatal ==
    [][\A r \in Runs :
          pc[r] = "copy" /\ pc'[r] # "copy" =>
              /\ pc'[r] = "match"
              /\ pending'[r] = NoOutcome
              /\ Copy2Raises(fs, src[r], dest[r]) => copied'[r] = copied[r]]_vars

\* run r has chosen its launch plan
Planned(r) == plan[r] # NoPlan

\* the spec's name of the mode a plan's label stands for
ModeOf(p) ==
    IF p.launch_mode = "direct (no hard limits)" THEN "Direct"
    ELSE IF p.launch_mode = "systemd (scope)" THEN "Scoped"
    ELSE IF StartsWith(p.launch_mode, "systemd (service)") THEN "Serviced"
    ELSE "?"

\* the mode the spawned vector itself shows: the bare user command, or the
\* launcher with --scope or with --unit
ShapeOf(p, args) ==
    LET launched == Len(p.full_cmd) > 1 /\ p.full_cmd[1] = "systemd-run"
        flag(x) == \E i \in 1..Len(p.full_cmd) :
                       /\ p.full_cmd[i] = x
                       /\ \A j \in 1..i : p.full_cmd[j] # "--"
    IN  {m \in {"Direct", "Scoped", "Serviced"} :
            \/ m = "Direct" /\ p.full_cmd = args
            \/ m = "Scoped" /\ launched /\ flag("--scope")
            \/ m = "Serviced" /\ launched /\ flag("--unit")}

\* the table of the spec over (isolationAvailable, ramDiskRequested)
ModeTable(available, ramdisk) ==
    IF ~available THEN "Direct" ELSE IF ramdisk THEN "Serviced" ELSE "Scoped"

\* C6: the launch mode of every planned run is the table's entry for
\* (systemd-run is on the host, --tmpfs is not empty), whatever the CPUs,
\* the RAM, the timeout, the save patterns and the command are; the label
\* and the spawned vector show that one mode and no other.
C6_LaunchModeTable ==
    \A r \in Runs :
        Planned(r) =>
            /\ ModeOf(plan[r]) =
                   ModeTable(SystemdRun \in DOMAIN fs, opts[r].tmpfs # "")
            /\ ShapeOf(plan[r], opts[r].args) = {ModeOf(plan[r])}

\* C6 witness: a RAM disk requested on a host without the launcher is Direct
C6_Witness ==
    /\ Planned(1) /\ opts[1].tmpfs = "256M" /\ SystemdRun \notin DOMAIN fs
    /\ opts[1].cpus = 29 /\ opts[1].timeout = 1
    /\ ModeOf(plan[1]) = "Direct"

\* run r holds a workspace: it has created its base directory and has not
\* returned
Holding(r) == Acquired(r) /\ pc[r] \notin {"start", "mkbase", "done", "absent"}

\* run r is between the creation of its work directory and its cleanup
Working(r) ==
    pc[r] \in {"plan", "spawn", "glob", "match", "copy", "report", "cleanup"}

\* C9: two runs that hold a workspace at the same time hold different base
\* directories, also when their run identities are equal, and the work
\* directory of a run stays in place until the run's own cleanup: no other
\* run deletes it.
C9_DistinctWorkspaces ==
    /\ \A r \in Runs, s \in Runs :
          r # s /\ Holding(r) /\ Holding(s) => base_dir[r] # base_dir[s]
    /\ \A r \in Runs : Working(r) => IsDir(fs, WorkDir(base_dir[r]))

\* C9 witness: two runs with the same identity and the same options are at
\* work at once
C9_Witness ==
    /\ Working(1) /\ Working(2)
    /\ run_id[1] = run_id[2] /\ opts[1] = opts[2]
    /\ Parent(base_dir[1]) = Parent(base_dir[2])

\* the index of the first "--" of vector v, 0 when it has none
Separator(v) ==
    IF \E i \in 1..Len(v) : v[i] = "--"
    THEN CHOOSE i \in 1..Len(v) : v[i] = "--" /\ \A j \in 1..(i - 1) : v[j] # "--"
    ELSE 0

\* the positions of vector v that hold a parameter of the given key
ParamsAt(v, key) == {i \in 1..Len(v) : StartsWith(v[i], key)}

\* vector v holds the parameter key<value> exactly once, after a "-p", and
\* no other parameter of that key
OneParam(v, key, value) ==
    \E i \in 2..Len(v) :
        ParamsAt(v, key) = {i} /\ v[i] = key \o value /\ v[i - 1] = "-p"

\* C10: in Scoped and Serviced modes the spawned vector is systemd-run,
\* --user, parameters, the first "--", then the user command as given; before
\* that "--" there is exactly one MemoryMax=<ram>, exactly one
\* CPUQuota=<quota>, a RuntimeMaxSec=<timeout> if and only if timeout > 0,
\* and a TemporaryFileSystem=/tmp:rw,size=<tmpfs> if and only if the mode is
\* Serviced.  In Direct mode the spawned vector is the user command.
C10_CommandVector ==
    \A r \in Runs :
        Planned(r) =>
            LET v == plan[r].full_cmd
                o == opts[r]
                sep == Separator(v)
                head == SubSeq(v, 1, sep - 1)
                mode == ModeOf(plan[r])
            IN  IF mode = "Direct" THEN v = o.args
                ELSE /\ mode \in {"Scoped", "Serviced"}
                     /\ sep > 2
                     /\ head[1] = "systemd-run" /\ head[2] = "--user"
                     /\ SubSeq(v, sep + 1, Len(v)) = o.args
                     /\ OneParam(head, "MemoryMax=", o.ram)
                     /\ OneParam(head, "CPUQuota=", ToString(IntTimes100(o.cpus)) \o "%")
                     /\ IF o.timeout > 0
                        THEN OneParam(head, "RuntimeMaxSec=", ToString(o.timeout))
                        ELSE ParamsAt(head, "RuntimeMaxSec=") = {}
                     /\ IF mode = "Serviced"
                        THEN OneParam(head, "TemporaryFileSystem=", "/tmp:rw,size=" \o o.tmpfs)
                        ELSE ParamsAt(head, "TemporaryFileSystem=") = {}

\* C10 witness: a service launch with a timeout of a command that itself
\* holds "--" and a word that looks like a limit parameter
C10_Witness ==
    /\ Planned(1) /\ ModeOf(plan[1]) = "Serviced" /\ opts[1].timeout = 1
    /\ opts[1].args = <<"nmap", "--", "-p", "MemoryMax=9G">>
    /\ Len(plan[1].full_cmd) = 25

\* the parameters of a launcher vector: what stands before its first "--"
Params(v) == SubSeq(v, 1, Separator(v) - 1)

\* C11: in Direct and Scoped modes the spawn call is given the work directory
\* as cwd and, as env, the process environment with TMPDIR set to the work
\* directory and every other variable as it was; in Serviced mode it is given
\* no cwd and no env, and the vector holds WorkingDirectory=<work directory>
\* and Environment=TMPDIR=/tmp, which is not the work directory.  In every mode
\* a child that starts, starts in the work directory.
C11_SpawnWiring ==
    \A r \in Runs :
        Planned(r) =>
            LET p == plan[r]
                work == WorkDir(base_dir[r])
                mode == ModeOf(p)
            IN  /\ mode \in {"Direct", "Scoped", "Serviced"}
                /\ mode \in {"Direct", "Scoped"} =>
                      /\ p.use_cwd = work
                      /\ DOMAIN p.use_env = DOMAIN environ \cup {"TMPDIR"}
                      /\ p.use_env["TMPDIR"] = work
                      /\ \A k \in DOMAIN environ \ {"TMPDIR"} :
                            p.use_env[k] = environ[k]
                /\ mode = "Serviced" =>
                      /\ p.use_cwd = NONE
                      /\ p.use_env = <<>>
                      /\ OneParam(Params(p.full_cmd), "WorkingDirectory=", work)
                      /\ OneParam(Params(p.full_cmd), "Environment=", "TMPDIR=/tmp")
                      /\ work # "/tmp"
                /\ ChildStarts(p) => ChildCwd(p) = work
                /\ ChildEnded(r) /\ pc[r] = "glob" /\ ChildStarts(p)
                      /\ opts[r].args = CmdScan =>
                      Join(work, "a.x") \in DOMAIN fs

\* C11 witness: the child of a service launch, started from a shell that has
\* TMPDIR set, has ended and left its files in the work directory
C11_Witness ==
    /\ pc[1] = "glob" /\ ModeOf(plan[1]) = "Serviced"
    /\ "TMPDIR" \in DOMAIN environ
    /\ Join(WorkDir(base_dir[1]), "a.x") \in DOMAIN fs
    /\ ~IsUnder(base_dir[1], environ["TMPDIR"])

\* the match run r takes from the glob's list in this step, if it takes one
Taken(r) == matches[r] \ matches'[r]

\* C12: the harvest copies a match only if the directory entry itself is a
\* regular file: every copy has such a source, and a step that takes a match
\* that is a symbolic link, a directory or a fifo goes on to the next match
\* with nothing copied, counted or raised.  (Fails: is_file() follows
\* symbolic links, so a link to a regular file is copied and counted.)
C12_OnlyPlainFiles ==
    [][\A r \in Runs :
          /\ Copies(r) => fs[src[r]].kind = "file"
          /\ pc[r] = "match" =>
                \A m \in Taken(r) :
                    fs[m].kind # "file" =>
                        /\ pc'[r] = "match"
                        /\ copied'[r] = copied[r]
                        /\ pending'[r] = NoOutcome
                        /\ fs' = fs]_vars

\* string s holds sub
Contains(s, sub) ==
    \E i \in 1..(Len(s) - Len(sub) + 1) : SubSeq(s, i, i + Len(sub) - 1) = sub

\* run r has made its spawn call
Launched(r) ==
    Planned(r) /\ pc[r] \in {"glob", "match", "copy", "report", "cleanup", "done"}

\* the index in echo[r] of the line that announces the launch, 0 when absent
LaunchLine(r) ==
    LET at == {i \in 1..Len(echo[r]) :
                  StartsWith(echo[r][i][2], "[fossbox] launching via")}
    IN  IF at = {} THEN 0 ELSE CHOOSE i \in at : \A j \in at : i <= j

\* C13: a run on a host without systemd-run still launches, in Direct mode,
\* and by the time of the spawn call it has written to stderr a line saying
\* that no hard limits and no timeout are enforced; with --tmpfs given, a
\* line on stderr says the request is ignored and no line announces the speed
\* mode.  (Fails: every status line goes to stdout, none mentions the timeout,
\* and the speed-mode line is written whenever --tmpfs is given.)
C13_DegradedWarning ==
    \A r \in Runs :
        Launched(r) /\ ~plan[r].use_systemd =>
            /\ ModeOf(plan[r]) = "Direct"
            /\ \E i \in 1..LaunchLine(r) :
                  /\ echo[r][i][1] = "err"
                  /\ Contains(echo[r][i][2], "no hard limits")
            /\ \E i \in 1..LaunchLine(r) :
                  /\ echo[r][i][1] = "err"
                  /\ Contains(echo[r][i][2], "timeout")
            /\ opts[r].tmpfs # "" =>
                  /\ \E i \in 1..LaunchLine(r) :
                        /\ echo[r][i][1] = "err"
                        /\ Contains(echo[r][i][2], "tmpfs")
                  /\ \A i \in 1..Len(echo[r]) :
                        ~StartsWith(echo[r][i][2], "[fossbox] speed mode")

\* the persistent cache root below the user's home directory
HomeCache == environ["HOME"] \o "/.cache/fossbox/runs"

\* C14: the base directory of a run is created in the cache root below the
\* home directory if and only if --tmpfs was given, and in the system
\* temporary-file root otherwise; so the workspace of a run in Serviced mode
\* is not below /tmp, which the service replaces by a private mount.  (Fails:
\* the home directory itself can lie below /tmp.)
C14_WorkspacePlacement ==
    \A r \in Runs :
        Acquired(r) =>
            /\ opts[r].tmpfs # "" <=> Parent(base_dir[r]) = HomeCache
            /\ opts[r].tmpfs = "" => Parent(base_dir[r]) = TempRoot
            /\ IsDir(fs, Parent(base_dir[r]))
            /\ Planned(r) /\ ModeOf(plan[r]) = "Serviced" =>
                  ~IsUnder(base_dir[r], "/tmp")

\* C15: for a CPU value of h hundredths of a core the quota string is the
\* decimal numeral of floor((h/100) * 100) = h followed by "%" (1.0 gives
\* "100%", 2.0 "200%", 0.5 "50%", 0.0 "0%"), and that string is the value of
\* the CPUQuota parameter in Scoped and Serviced modes.  (Fails: the product
\* is a float product, and int() of it can be one less, as for 0.29.)
C15_QuotaIsFloor ==
    \A r \in Runs :
        Planned(r) =>
            /\ plan[r].cpu_quota = ToString(opts[r].cpus) \o "%"
            /\ ModeOf(plan[r]) \in {"Scoped", "Serviced"} =>
                  OneParam(Params(plan[r].full_cmd), "CPUQuota=",
                           ToString(opts[r].cpus) \o "%")

\* the paths whose entry a step creates or changes
Written == {q \in DOMAIN fs' : q \notin DOMAIN fs \/ fs'[q] # fs[q]}

\* C16: whatever the save patterns are, every copy of the harvest reads a
\* file that lies in the tree of the run's work directory and writes a direct
\* child of the destination directory.  (Fails: an absolute pattern replaces
\* the work directory in work_dir / pat, and ".." components climb out of it.)
C16_HarvestConfined ==
    [][\A r \in Runs :
          Copies(r) =>
              /\ IsUnder(src[r], WorkDir(base_dir[r]))
              /\ IsUnder(Deref(fs, src[r]), WorkDir(base_dir[r]))
              /\ \A q \in Written : Parent(q) = opts[r].out]_vars

\* C17: no copy of a harvest pass changes a file that is already in the
\* destination, whether it was there before the run or was written earlier
\* in the pass.  (Fails: the name with the run identity is used without a
\* check that it is free, so the third file of one base name overwrites the
\* second.)
C17_NoOverwriteInPass ==
    [][\A r \in Runs :
          Copies(r) =>
              \A q \in DestFiles(fs, opts[r].out) : fs'[q] = fs[q]]_vars

\* the place of a position of run() in the order of its steps: entry (0),
\* workspace creation (1-3), plan selection (4), child execution (5),
\* harvest (6, with its summary 7), cleanup (8), returned (9)
Rank(p) ==
    CASE p \in {"absent", "start"} -> 0
      [] p = "mkbase" -> 1
      [] p = "mkout" -> 2
      [] p = "mkwork" -> 3
      [] p = "plan" -> 4
      [] p = "spawn" -> 5
      [] p \in {"glob", "match", "copy"} -> 6
      [] p = "report" -> 7
      [] p = "cleanup" -> 8
      [] p = "done" -> 9

\* what run r holds besides its position
Locals(r) ==
    <<run_id[r], base_dir[r], plan[r], rc[r], patterns[r], patIdx[r], matches[r],
      src[r], dest[r], copied[r], pending[r], outcome[r], echo[r]>>

\* run r is in its harvest
Harvesting(r) == pc[r] \in {"glob", "match", "copy", "report"}

\* C18: a run goes through workspace creation, plan selection, child
\* execution, harvest and cleanup in that order and through each at most
\* once: its position never moves back, and outside the loops of the harvest
\* every step of the run moves it forward.  The plan is chosen with the work
\* directory in place, the harvest runs only with the child ended and the
\* work directory in place, nothing below the base directory is removed
\* before the cleanup step, and after the cleanup step the run does nothing.
C18_StepOrder ==
    /\ [][\A r \in Runs :
              /\ Rank(pc'[r]) >= Rank(pc[r])
              /\ (pc'[r] # pc[r] \/ Locals(r)' # Locals(r)) /\ Rank(pc[r]) # 6 =>
                    Rank(pc'[r]) > Rank(pc[r])
              /\ plan'[r] # plan[r] => pc[r] = "plan"
              /\ rc'[r] # rc[r] => pc[r] = "spawn"
              /\ base_dir'[r] # base_dir[r] => pc[r] = "mkbase"
              /\ (\E q \in DOMAIN fs \ DOMAIN fs' :
                      Holding(r) /\ (q = base_dir[r] \/ IsUnder(q, base_dir[r]))) =>
                    pc[r] = "cleanup" /\ pc'[r] = "done"
              /\ pc[r] = "done" => pc'[r] = "done" /\ Locals(r)' = Locals(r)]_vars
    /\ [](\A r \in Runs :
              /\ Planned(r) => Acquired(r)
              /\ ChildEnded(r) => Planned(r)
              /\ pc[r] \in {"plan", "spawn"} => IsDir(fs, WorkDir(base_dir[r]))
              /\ pc[r] \in {"start", "mkbase", "mkout", "mkwork", "plan"} => ~Planned(r)
              /\ pc[r] \in {"start", "mkbase", "mkout", "mkwork", "plan", "spawn"} =>
                    ~ChildEnded(r) /\ copied[r] = 0
              /\ Harvesting(r) =>
                    /\ ChildEnded(r)
                    /\ IsDir(fs, WorkDir(base_dir[r])))

\* C18 witness: a run has gone through every step: its child ended, it saved
\* files, and its cleanup removed the workspace
C18_Witness ==
    /\ Done(1) /\ ChildEnded(1) /\ copied[1] = 3 /\ outcome[1] = Exit(rc[1][1])
    /\ base_dir[1] \notin DOMAIN fs
    /\ Said(1, "out", "[fossbox] cleaned up workspace.")

\* the stripped, non-empty pieces of the --save list
SaveList(r) ==
    LET pieces == IF opts[r].save = "" THEN <<>> ELSE Split(opts[r].save, ",")
    IN  SelectSeq([i \in 1..Len(pieces) |-> Strip(pieces[i])], LAMBDA q : q # "")

\* C19: a spawn call that returns, with whatever code, is followed by the
\* harvest over the whole --save list, starting at its first pattern with a
\* count of zero; only a spawn call that raises goes to the cleanup with no
\* harvest.  No step of the harvest changes the return code, each pattern is
\* expanded below the work directory and each file named by the collision
\* rule whatever the code is, the harvest is left only at its end or by a
\* copy that raises, and the cleanup leaves every file of the destination as
\* it is.
C19_HarvestWhateverRc ==
    [][\A r \in Runs :
          /\ pc[r] = "spawn" /\ pc'[r] # "spawn" =>
                IF Len(rc'[r]) = 1
                THEN /\ pc'[r] = "glob"
                     /\ patterns'[r] = SaveList(r)
                     /\ patIdx'[r] = 1 /\ copied'[r] = 0
                     /\ pending'[r] = NoOutcome
                ELSE /\ pc'[r] = "cleanup"
                     /\ pending'[r].kind \notin {"", "Exit"}
                     /\ SpawnRaises(plan[r].full_cmd)
                     /\ fs' = fs
          /\ Harvesting(r) =>
                /\ rc'[r] = rc[r] /\ patterns'[r] = patterns[r]
                /\ pc[r] = "glob" /\ pc'[r] = "match" =>
                      matches'[r] = Glob(fs, PathJoin(WorkDir(base_dir[r]),
                                                      patterns[r][patIdx[r]]))
                /\ pc[r] = "glob" /\ pc'[r] = "report" => patIdx[r] = Len(patterns[r]) + 1
                /\ pc[r] = "match" /\ pc'[r] = "copy" =>
                      dest'[r] \in {Join(opts[r].out, Name(src'[r])),
                                    Join(opts[r].out, PathStem(src'[r]) \o "-"
                                           \o run_id[r] \o PathSuffix(src'[r]))}
                /\ pc'[r] = "cleanup" =>
                      \/ pc[r] = "report" /\ pending'[r] = Exit(rc[r][1])
                      \/ pc[r] = "copy" /\ Copy2Raises(fs, src[r], dest[r])
          /\ pc[r] = "cleanup" /\ pc'[r] = "done" =>
                \A q \in DestFiles(fs, opts[r].out) :
                    fs[q].kind = "file" => q \in DOMAIN fs' /\ fs'[q] = fs[q]]_vars

\* C19 witness: a run whose child ended with a non-zero code has saved the
\* child's three files, which are in the destination after the cleanup
C19_Witness ==
    /\ Done(1) /\ ChildEnded(1) /\ rc[1] # <<0>> /\ outcome[1] = Exit(rc[1][1])
    /\ opts[1].args = CmdScan /\ opts[1].save = "*.x, *.g" /\ copied[1] = 3
    /\ base_dir[1] \notin DOMAIN fs
    /\ {"/out/a.x", "/out/b.x", "/out/c.g"} \subseteq DOMAIN fs
    /\ fs["/out/c.g"].data = Content(1, "c.g")

====
